---- MODULE Spec2Model ----
(***************************************************************************)
(* Caching HTTP proxy: the in-memory response cache                        *)
(* (caching_proxy/cache/in_memory.py), the per-connection handler          *)
(* (caching_proxy/server.py) and the periodic cleaner (main.py).           *)
(*                                                                         *)
(* The cache is an OrderedDict: a sequence of entries, first = oldest      *)
(* (the end popitem(last=False) pops), last = newest (the end              *)
(* move_to_end moves to).                                                  *)
(***************************************************************************)
EXTENDS Integers, Sequences, FiniteSets, TLC

\* ------------------------------------------------------------- bounds

\* connections the proxy accepts in a run
MaxConns == 3
\* largest --cache-size-limit and positive --hit-ttl the proxy is started with
MaxServerSizeLimit == 1
MaxServerHitTtl == 1
\* largest --cache-size-limit explored
MaxSizeLimit == 2
\* largest positive --hit-ttl explored
MaxHitTtl == 2
\* a get is explored until the entry's counter is MaxNegTtl below zero (below
\* hit_ttl when hit_ttl is negative)
MaxNegTtl == 2
\* chunks of a chunked response read from a stream
MaxChunks == 2
\* largest Content-Length value read
MaxContentLength == 99
MaxLruSizeLimit == 3
MaxLruHitTtl == 1

\* request lines, as request_line.split(" ") sees them
GetA == <<"GET", "/a", "HTTP/1.1">>
LowerGetA == <<"get", "/a", "HTTP/1.1">>
GetB == <<"GET", "/b", "HTTP/1.1">>
PostA == <<"POST", "/a", "HTTP/1.1">>
NoKey == <<>>

\* cache keys used when the cache is called directly
Keys == {GetA, LowerGetA, GetB}

\* one key more, for a store of three entries that overflows
GetC == <<"GET", "/c", "HTTP/1.1">>
LruKeys == Keys \cup {GetC}

\* request lines clients send to the proxy
RequestLines == {GetA, LowerGetA, PostA}

\* responses as captured from the origin: the raw header block (start line
\* and header lines <<name, value>> as on the wire) and the raw body
R1 == [header |-> [start |-> "HTTP/1.1 200 OK",
                   lines |-> << <<"Content-Length", "2">> >>],
       body |-> "b1"]
R2 == [header |-> [start |-> "HTTP/1.1 200 OK",
                   lines |-> << <<"content-length", "2">> >>],
       body |-> "b2"]
Responses == {R1, R2}
\* what the origin may answer to a request line (put for a key)
ResponsesFor(line) == IF line[2] = "/a" /\ line[1] = "GET" THEN Responses ELSE {R1}
NoResponse == [header |-> [start |-> "", lines |-> <<>>], body |-> ""]

\* placeholders of a stream builder that is not at work
NoHeaders == [raw |-> NoResponse.header, start_line |-> "", headers |-> <<>>]
NoMessage == [header |-> NoResponse.header, body |-> <<>>]
NoBuilder ==
    [pc |-> "none", stream |-> [header |-> NoResponse.header, payloads |-> <<>>,
                                wire |-> <<>>],
     unread |-> <<>>, headers |-> NoHeaders, body |-> <<>>, sent |-> NoMessage]

\* a response of an origin that is itself a caching proxy of this kind: it
\* carries the X-Cached-By-Proxy line that proxy added
R3 == [header |-> [start |-> "HTTP/1.1 200 OK",
                   lines |-> << <<"Content-Length", "2">>,
                                <<"X-Cached-By-Proxy", "MISS">> >>],
       body |-> "b1"]
\* what the origin may answer to a request line the proxy forwards
OriginResponses == Responses \cup {R3}
OriginResponsesFor(line) ==
    IF line[2] = "/a" /\ line[1] = "GET" THEN OriginResponses
    ELSE IF line[1] = "POST" THEN {R1, R3}
    ELSE {R1}

VARIABLES
    cache,              \* self._cache: sequence of [key, response, HIT_TTL]
    cache_size_limit,   \* self.cache_size_limit
    eviction_policy,    \* self.eviction_policy
    hit_ttl,            \* self.hit_ttl
    cache_clean_interval, \* args.cache_clean_interval (0: no cleaner task)
    conns,              \* the _handle_request tasks, one per connection being served
    accepted,           \* history: connections accepted so far
    lastOp,             \* history: the last direct cache call and what it returned
    recency,            \* history: stored keys, least recently read/first stored first
    used,               \* history: stored keys, least recently read/put first
    shadow,             \* history: per key, the value last put and the gets since
    cleaned,            \* history: the cleaner has called evict()
    builder,            \* a DechunkedAsyncStreamMessageBuilder reading a response
    cleaner,            \* the periodic_cache_cleaner task: "none", "sleep", "failed"
    evicted_empty       \* history: a put or the cleaner has called evict() on an
                        \* empty store

vars == <<cache, cache_size_limit, eviction_policy, hit_ttl, cache_clean_interval,
          conns, accepted, lastOp, recency, used, shadow, cleaned, builder,
          cleaner, evicted_empty>>

\* ------------------------------------------------------------- argument_parser.py

discard_negative_int(ivalue) == ivalue >= 0

discard_zero(ivalue) == ivalue # 0

\* ------------------------------------------------------------- OrderedDict

Present(c, key) == \E i \in 1..Len(c) : c[i].key = key

IndexOf(c, key) == CHOOSE i \in 1..Len(c) : c[i].key = key

Lookup(c, key) == c[IndexOf(c, key)]

KeysOf(c) == [i \in 1..Len(c) |-> c[i].key]

Without(c, key) == SelectSeq(c, LAMBDA e : e.key # key)

\* self._cache[key] = value: a present key keeps its position
SetItem(c, key, value) ==
    IF Present(c, key) THEN [c EXCEPT ![IndexOf(c, key)] = value]
    ELSE Append(c, value)

move_to_end(c, key) == Append(Without(c, key), Lookup(c, key))

\* ------------------------------------------------------------- InMemoryResponseCache
\* Every method is an operator from the store to [cache, ret, val]:
\* the store afterwards, how the call ended ("True", "False", "None",
\* "value" or "KeyError") and the value returned.

Result(c, ret, val) == [cache |-> c, ret |-> ret, val |-> val]

remove_from_cache(c, key) ==
    IF Present(c, key) THEN Result(Without(c, key), "None", NoResponse)
    ELSE Result(c, "KeyError", NoResponse)

has_cached_response_KeepExpired(c, key) ==
    IF ~Present(c, key) THEN Result(c, "False", NoResponse)
    ELSE IF Lookup(c, key).HIT_TTL = 0 THEN Result(c, "False", NoResponse)
    ELSE Result(c, "True", NoResponse)

has_cached_response_NotPositive(c, key) ==
    IF ~Present(c, key) THEN Result(c, "False", NoResponse)
    ELSE IF Lookup(c, key).HIT_TTL <= 0
         THEN Result(remove_from_cache(c, key).cache, "False", NoResponse)
    ELSE Result(c, "True", NoResponse)

has_cached_response(c, key) ==
    IF ~Present(c, key) THEN Result(c, "False", NoResponse)
    ELSE IF Lookup(c, key).HIT_TTL = 0
         THEN Result(remove_from_cache(c, key).cache, "False", NoResponse)
    ELSE Result(c, "True", NoResponse)

evict_NoneAsLru(c) ==
    CASE eviction_policy = "entire" -> Result(<<>>, "None", NoResponse)
      [] eviction_policy \in {"lru", "none"} ->
            IF c = <<>> THEN Result(c, "KeyError", NoResponse)
            ELSE Result(Tail(c), "None", NoResponse)
      [] OTHER -> Result(c, "None", NoResponse)

evict_EntireAsLru(c) ==
    CASE eviction_policy \in {"entire", "lru"} ->
            IF c = <<>> THEN Result(c, "KeyError", NoResponse)
            ELSE Result(Tail(c), "None", NoResponse)
      [] OTHER -> Result(c, "None", NoResponse)

evict(c) ==
    CASE eviction_policy = "entire" -> Result(<<>>, "None", NoResponse)
      [] eviction_policy = "lru" ->
            IF c = <<>> THEN Result(c, "KeyError", NoResponse)
            ELSE Result(Tail(c), "None", NoResponse)
      [] OTHER -> Result(c, "None", NoResponse)

NewEntry(key, response) == [key |-> key, response |-> response, HIT_TTL |-> hit_ttl]

cache_response_EvictWhenOver(c, key, response) ==
    IF cache_size_limit = 0 THEN Result(c, "None", NoResponse)
    ELSE LET ev == IF Len(c) > cache_size_limit THEN evict(c)
                   ELSE Result(c, "None", NoResponse)
         IN  IF ev.ret = "KeyError" THEN Result(c, "KeyError", NoResponse)
             ELSE Result(SetItem(ev.cache, key, NewEntry(key, response)),
                         "None", NoResponse)

cache_response_NoZeroCheck(c, key, response) ==
    LET ev == IF Len(c) >= cache_size_limit THEN evict(c)
              ELSE Result(c, "None", NoResponse)
    IN  IF ev.ret = "KeyError" THEN Result(c, "KeyError", NoResponse)
        ELSE Result(SetItem(ev.cache, key, NewEntry(key, response)),
                    "None", NoResponse)

cache_response_EvictAfterInsert(c, key, response) ==
    IF cache_size_limit = 0 THEN Result(c, "None", NoResponse)
    ELSE LET inserted == SetItem(c, key, NewEntry(key, response))
             ev == IF Len(inserted) >= cache_size_limit THEN evict(inserted)
                   ELSE Result(inserted, "None", NoResponse)
         IN  IF ev.ret = "KeyError" THEN Result(c, "KeyError", NoResponse)
             ELSE Result(ev.cache, "None", NoResponse)

cache_response(c, key, response) ==
    IF cache_size_limit = 0 THEN Result(c, "None", NoResponse)
    ELSE LET ev == IF Len(c) >= cache_size_limit THEN evict(c)
                   ELSE Result(c, "None", NoResponse)
         IN  IF ev.ret = "KeyError" THEN Result(c, "KeyError", NoResponse)
             ELSE Result(SetItem(ev.cache, key, NewEntry(key, response)),
                         "None", NoResponse)

get_cached_response_NoDecrement(c, key) ==
    IF ~Present(c, key) THEN Result(c, "KeyError", NoResponse)
    ELSE Result(move_to_end(c, key), "value", Lookup(c, key).response)

get_cached_response_Increment(c, key) ==
    IF ~Present(c, key) THEN Result(c, "KeyError", NoResponse)
    ELSE LET cached_value == Lookup(c, key)
             decremented == [cached_value EXCEPT !.HIT_TTL = @ + 1]
         IN  Result(move_to_end(SetItem(c, key, decremented), key),
                    "value", cached_value.response)

get_cached_response(c, key) ==
    IF ~Present(c, key) THEN Result(c, "KeyError", NoResponse)
    ELSE LET cached_value == Lookup(c, key)
             decremented == [cached_value EXCEPT !.HIT_TTL = @ - 1]
         IN  Result(move_to_end(SetItem(c, key, decremented), key),
                    "value", cached_value.response)

get_cache_size(c) == Len(c)

\* cache_response gets as far as its call of self.evict()
cache_response_calls_evict(c) ==
    cache_size_limit # 0 /\ Len(c) >= cache_size_limit

\* ------------------------------------------------------------- history
\* A reference record of the calls, kept beside the store and never read by
\* the methods above: which keys the calls so far leave stored, ordered as an
\* OrderedDict orders them (by the last read, or else the put that stored the
\* key), the same keys ordered by the last read or put of each, and per key
\* the value put and the reads since.

Op(op, key, r, c) ==
    [op |-> op, key |-> key, ret |-> r.ret, val |-> r.val, size_before |-> Len(c)]

InRecency(key) == \E i \in 1..Len(recency) : recency[i] = key

Drop(s, keys) == SelectSeq(s, LAMBDA k : k \notin keys)

Exhausted(key) == hit_ttl > 0 /\ shadow[key].gets = hit_ttl

\* the keys an overflowing put displaces before it inserts
Displaced ==
    IF cache_size_limit > 0 /\ Len(recency) >= cache_size_limit
    THEN CASE eviction_policy = "entire" -> {recency[i] : i \in 1..Len(recency)}
           [] eviction_policy = "lru" -> {Head(recency)}
           [] OTHER -> {}
    ELSE {}

RecencyAfter(op, key) ==
    CASE op = "has" -> IF InRecency(key) /\ Exhausted(key)
                       THEN Drop(recency, {key}) ELSE recency
      [] op = "remove" -> Drop(recency, {key})
      [] op = "get" -> IF InRecency(key) THEN Append(Drop(recency, {key}), key)
                       ELSE recency
      [] op = "evict" ->
            IF recency = <<>> THEN recency
            ELSE CASE eviction_policy = "entire" -> <<>>
                   [] eviction_policy = "lru" -> Tail(recency)
                   [] OTHER -> recency
      [] op = "put" ->
            IF cache_size_limit = 0 THEN recency
            ELSE LET kept == Drop(recency, Displaced)
                 IN  IF \E i \in 1..Len(kept) : kept[i] = key THEN kept
                     ELSE Append(kept, key)
      [] OTHER -> recency

\* the stored keys (those of the store c after the call) in the order of the
\* last get or put of each: a get and a put both make their key the newest
UsedAfter(op, key, c) ==
    LET touched == IF op \in {"get", "put"} THEN Append(Drop(used, {key}), key)
                   ELSE used
    IN  SelectSeq(touched, LAMBDA k : Present(c, k))

ShadowAfter(op, key, response) ==
    LET stored == RecencyAfter(op, key)
        IsStored(k) == \E i \in 1..Len(stored) : stored[i] = k
    IN  [k \in DOMAIN shadow |->
            IF ~IsStored(k) THEN [val |-> NoResponse, gets |-> 0]
            ELSE IF k = key /\ op = "put" THEN [val |-> response, gets |-> 0]
            ELSE IF k = key /\ op = "get" THEN [shadow[k] EXCEPT !.gets = @ + 1]
            ELSE shadow[k]]

\* a cache_response on the store c: whether its evict() found the store empty
PutOn(c) ==
    evicted_empty' = (evicted_empty \/ (cache_response_calls_evict(c) /\ c = <<>>))

Record(op, key, response, r) ==
    /\ cache' = r.cache
    /\ lastOp' = Op(op, key, r, cache)
    /\ recency' = RecencyAfter(op, key)
    /\ used' = UsedAfter(op, key, r.cache)
    /\ shadow' = ShadowAfter(op, key, response)

\* ------------------------------------------------------------- the cache, called directly

Config == <<cache_size_limit, eviction_policy, hit_ttl, cache_clean_interval>>

History == <<lastOp, recency, used, shadow>>

\* handler tasks that can be alive at once; a finished one gives way to the
\* task of a later connection
Handlers == {1, 2}

IdleConn ==
    [pc |-> "idle", seq |-> 0, line |-> NoKey, served |-> "-", sent |-> NoResponse,
     origin |-> "none", client |-> "none", error |-> FALSE, after |-> FALSE,
     mutated |-> FALSE, raised |-> "-", events |-> <<>>]

\* the arguments of InMemoryResponseCache(cache_size_limit, eviction_policy,
\* hit_ttl), no task yet
Configure(max_size_limit, max_hit_ttl) ==
    /\ cache_size_limit \in {s \in 0..max_size_limit : discard_negative_int(s)}
    /\ eviction_policy \in {"entire", "lru", "none"}
    /\ hit_ttl \in {t \in -1..max_hit_ttl : discard_zero(t)}
    /\ lastOp = [op |-> "init", key |-> NoKey, ret |-> "None", val |-> NoResponse,
                 size_before |-> 0]
    /\ recency = <<>>
    /\ used = <<>>
    /\ shadow = [k \in Keys |-> [val |-> NoResponse, gets |-> 0]]
    /\ conns = [h \in Handlers |-> IdleConn]
    /\ accepted = 0
    /\ cleaned = FALSE
    /\ evicted_empty = FALSE

Construct(max_size_limit, max_hit_ttl) ==
    /\ cache = <<>>
    /\ Configure(max_size_limit, max_hit_ttl)

\* main: the cleaner task is created unless the interval is 0
StartCleaner == cleaner = IF cache_clean_interval = 0 THEN "none" ELSE "sleep"

\* the cache alone, as the unit tests build it
Init ==
    /\ Construct(MaxSizeLimit, MaxHitTtl)
    /\ cache_clean_interval = 0
    /\ builder = NoBuilder
    /\ StartCleaner

\* the lowest counter explored
Floor == (IF hit_ttl < 0 THEN hit_ttl ELSE 0) - MaxNegTtl

Has(key) ==
    /\ Record("has", key, NoResponse, has_cached_response(cache, key))
    /\ UNCHANGED <<Config, builder, conns, accepted, cleaned, cleaner, evicted_empty>>

Get(key) ==
    /\ Present(cache, key) => Lookup(cache, key).HIT_TTL > Floor
    /\ Record("get", key, NoResponse, get_cached_response(cache, key))
    /\ UNCHANGED <<Config, builder, conns, accepted, cleaned, cleaner, evicted_empty>>

Put(key, response) ==
    /\ Record("put", key, response, cache_response(cache, key, response))
    /\ PutOn(cache)
    /\ UNCHANGED <<Config, builder, conns, accepted, cleaned, cleaner>>

Remove(key) ==
    /\ Record("remove", key, NoResponse, remove_from_cache(cache, key))
    /\ UNCHANGED <<Config, builder, conns, accepted, cleaned, cleaner, evicted_empty>>

Evict ==
    /\ Record("evict", NoKey, NoResponse, evict(cache))
    /\ UNCHANGED <<Config, builder, conns, accepted, cleaned, cleaner, evicted_empty>>

Next ==
    \/ \E key \in Keys : Has(key)
    \/ \E key \in Keys : Get(key)
    \/ \E key \in Keys : \E response \in ResponsesFor(key) : Put(key, response)
    \/ \E key \in Keys : Remove(key)
    \/ Evict

Spec == Init /\ [][Next]_vars

\* an "lru" cache of up to MaxLruSizeLimit entries, called with one key more
\* than it can hold
LruInit ==
    /\ cache = <<>>
    /\ cache_size_limit \in {s \in 1..MaxLruSizeLimit : discard_negative_int(s)}
    /\ eviction_policy = "lru"
    /\ hit_ttl \in {t \in -1..MaxLruHitTtl : discard_zero(t)}
    /\ lastOp = [op |-> "init", key |-> NoKey, ret |-> "None", val |-> NoResponse,
                 size_before |-> 0]
    /\ recency = <<>>
    /\ used = <<>>
    /\ shadow = [k \in LruKeys |-> [val |-> NoResponse, gets |-> 0]]
    /\ conns = [h \in Handlers |-> IdleConn]
    /\ accepted = 0
    /\ cleaned = FALSE
    /\ evicted_empty = FALSE
    /\ cache_clean_interval = 0
    /\ builder = NoBuilder
    /\ StartCleaner

LruNext ==
    \/ \E key \in LruKeys : Has(key)
    \/ \E key \in LruKeys : Get(key)
    \/ \E key \in LruKeys : \E response \in ResponsesFor(key) : Put(key, response)
    \/ \E key \in LruKeys : Remove(key)
    \/ Evict

LruSpec == LruInit /\ [][LruNext]_vars

\* ------------------------------------------------------------- http/message.py

\* HTTPHeaders._normalize_header: strip, lower-case, "-" to "_"
_normalize_header(repr_txt) ==
    CASE repr_txt \in {"Content-Length", "content-length", "content_length"} ->
            "content_length"
      [] repr_txt \in {"X-Cached-By-Proxy", "x-cached-by-proxy", "x_cached_by_proxy"} ->
            "x_cached_by_proxy"
      [] repr_txt \in {"Transfer-Encoding", "transfer-encoding", "transfer_encoding"} ->
            "transfer_encoding"
      [] OTHER -> repr_txt

\* HTTPHeaders._format_header: "_" to "-", every word capitalized
_format_header(norm_txt) ==
    CASE norm_txt = "content_length" -> "Content-Length"
      [] norm_txt = "x_cached_by_proxy" -> "X-Cached-By-Proxy"
      [] norm_txt = "transfer_encoding" -> "Transfer-Encoding"
      [] OTHER -> norm_txt

HasName(headers, name) == \E i \in 1..Len(headers) : headers[i][1] = name

\* headers.setdefault(name, []).append(value) / the body of HTTPHeaders.insert:
\* headers is the ordered dict, a sequence of <<normalized name, values>>
Extend(headers, name, values) ==
    IF HasName(headers, name)
    THEN [i \in 1..Len(headers) |->
            IF headers[i][1] = name THEN <<name, headers[i][2] \o values>>
            ELSE headers[i]]
    ELSE Append(headers, <<name, values>>)

RECURSIVE _parse_header_lines(_)
_parse_header_lines(lines) ==
    IF lines = <<>> THEN <<>>
    ELSE LET n == Len(lines)
             line == lines[n]
         IN  Extend(_parse_header_lines(SubSeq(lines, 1, n - 1)),
                    _normalize_header(line[1]), <<line[2]>>)

RECURSIVE Serialize(_)
Serialize(headers) ==
    IF headers = <<>> THEN <<>>
    ELSE LET name == headers[1][1]
             values == headers[1][2]
         IN  [i \in 1..Len(values) |-> <<_format_header(name), values[i]>>]
                \o Serialize(Tail(headers))

\* HTTPHeaders(raw_header): raw stays as received until a mutation
HTTPHeaders(raw_header) ==
    [raw |-> raw_header, start_line |-> raw_header.start,
     headers |-> _parse_header_lines(raw_header.lines)]

_update_raw_bytes(h) ==
    [h EXCEPT !.raw = [start |-> h.start_line, lines |-> Serialize(h.headers)]]

insert(h, name, values) ==
    _update_raw_bytes(
        [h EXCEPT !.headers = Extend(@, _normalize_header(name), values)])

HTTPMessage(headers, body) == [headers |-> headers, body |-> body]

set_header(message, name, value) ==
    [message EXCEPT !.headers = insert(@, name, value)]

Raw(message) == [header |-> message.headers.raw, body |-> message.body]

\* RawMessageBuilder.build_response
build_response(raw_headers, raw_body) ==
    HTTPMessage(HTTPHeaders(raw_headers), raw_body)

upper(word) ==
    CASE word = "get" -> "GET"
      [] word = "post" -> "POST"
      [] OTHER -> word

method_AlwaysGet(request_line) == "GET"

\* HTTPRequest.method
method(request_line) == upper(request_line[1])

\* ------------------------------------------------------------- http/reader.py
\* The unread part of a stream's body is a sequence of bytes, one character
\* each; the header block is read as a whole (readuntil CRLF CRLF) and is
\* kept as start line and header lines.

CRLF == <<"\r", "\n">>

IncompleteRead == [ok |-> FALSE, data |-> <<>>, rest |-> <<>>]

\* StreamReader.readuntil(CRLF): the bytes up to and including the first CRLF
readuntil(bytes) ==
    LET ends == {i \in 1..(Len(bytes) - 1) : bytes[i] = "\r" /\ bytes[i + 1] = "\n"}
        first == CHOOSE i \in ends : \A j \in ends : i <= j
    IN  IF ends = {} THEN IncompleteRead
        ELSE [ok |-> TRUE, data |-> SubSeq(bytes, 1, first + 1),
              rest |-> SubSeq(bytes, first + 2, Len(bytes))]

\* StreamReader.readexactly(n)
readexactly(bytes, n) ==
    IF Len(bytes) < n THEN IncompleteRead
    ELSE [ok |-> TRUE, data |-> SubSeq(bytes, 1, n),
          rest |-> SubSeq(bytes, n + 1, Len(bytes))]

Whitespace == {" ", "\t", "\r", "\n"}

\* bytes.strip()
RECURSIVE strip(_)
strip(bytes) ==
    IF bytes = <<>> THEN <<>>
    ELSE IF bytes[1] \in Whitespace THEN strip(Tail(bytes))
    ELSE IF bytes[Len(bytes)] \in Whitespace
         THEN strip(SubSeq(bytes, 1, Len(bytes) - 1))
    ELSE bytes

\* bytes.split(b";")[0]
RECURSIVE split_first(_)
split_first(bytes) ==
    IF bytes = <<>> \/ bytes[1] = ";" THEN <<>>
    ELSE <<bytes[1]>> \o split_first(Tail(bytes))

HexDigits == <<"0", "1", "2", "3", "4", "5", "6", "7", "8", "9",
               "a", "b", "c", "d", "e", "f">>
UpperHexDigits == <<"0", "1", "2", "3", "4", "5", "6", "7", "8", "9",
                    "A", "B", "C", "D", "E", "F">>

IsHex(byte) == \E d \in 1..16 : byte \in {HexDigits[d], UpperHexDigits[d]}

HexValue(byte) ==
    (CHOOSE d \in 1..16 : byte \in {HexDigits[d], UpperHexDigits[d]}) - 1

\* int(digits, 16); -1 stands for the ValueError
RECURSIVE int16(_)
int16(digits) ==
    IF digits = <<>> \/ \E i \in 1..Len(digits) : ~IsHex(digits[i]) THEN -1
    ELSE IF Len(digits) = 1 THEN HexValue(digits[1])
    ELSE 16 * int16(SubSeq(digits, 1, Len(digits) - 1))
            + HexValue(digits[Len(digits)])

\* AsyncHTTPStreamReader._read_chunked, one turn of its loop: the size line,
\* then the chunk and its CRLF, or after size 0 the trailer CRLF
_read_chunked(bytes, body) ==
    LET size_line == readuntil(bytes)
        size == int16(split_first(strip(size_line.data)))
        trailer == readuntil(size_line.rest)
        chunk == readexactly(size_line.rest, size)
        delimiter == readuntil(chunk.rest)
        error == [status |-> "error", rest |-> <<>>, body |-> body]
    IN  IF ~size_line.ok \/ size < 0 THEN error
        ELSE IF size = 0
        THEN IF trailer.ok
             THEN [status |-> "break", rest |-> trailer.rest, body |-> body]
             ELSE error
        ELSE IF chunk.ok /\ delimiter.ok
        THEN [status |-> "continue", rest |-> delimiter.rest,
              body |-> body \o chunk.data]
        ELSE error

\* AsyncHTTPStreamReader._read_exactly
_read_exactly(bytes, content_length) == readexactly(bytes, content_length)

\* ------------------------------------------------------------- http/message.py: the stream builder

\* HTTPHeaders.get_header: the values, <<>> for None (parsing and insert
\* never leave an empty list)
get_header(h, name) ==
    LET normalized_name == _normalize_header(name)
        at == {i \in 1..Len(h.headers) : h.headers[i][1] = normalized_name}
    IN  IF at = {} THEN <<>> ELSE h.headers[CHOOSE i \in at : TRUE][2]

\* HTTPHeaders.replace: overwrite in place when present
replace(h, name, values) ==
    LET normalized_name == _normalize_header(name)
    IN  IF HasName(h.headers, normalized_name)
        THEN _update_raw_bytes(
                [h EXCEPT !.headers =
                    [i \in 1..Len(h.headers) |->
                        IF h.headers[i][1] = normalized_name
                        THEN <<normalized_name, values>>
                        ELSE h.headers[i]]])
        ELSE h

\* HTTPHeaders.delete
delete(h, name) ==
    LET normalized_name == _normalize_header(name)
    IN  IF HasName(h.headers, normalized_name)
        THEN _update_raw_bytes(
                [h EXCEPT !.headers =
                    SelectSeq(h.headers, LAMBDA e : e[1] # normalized_name)])
        ELSE h

DecimalDigits == <<"0", "1", "2", "3", "4", "5", "6", "7", "8", "9">>

\* str(n) of a length
RECURSIVE str(_)
str(n) ==
    IF n < 10 THEN DecimalDigits[n + 1]
    ELSE str(n \div 10) \o DecimalDigits[(n % 10) + 1]

\* int(text) of a Content-Length value; -1 stands for the ValueError
int(text) ==
    LET values == {n \in 0..MaxContentLength : str(n) = text}
    IN  IF values = {} THEN -1 ELSE CHOOSE n \in values : TRUE

\* DechunkedAsyncStreamMessageBuilder._expected_body_size
_expected_body_size(headers) ==
    LET content_length_header == get_header(headers, "content_length")
    IN  IF content_length_header = <<>> THEN 0 ELSE int(content_length_header[1])

\* DechunkedAsyncStreamMessageBuilder._expect_chunked_body
_expect_chunked_body(headers) ==
    LET chunked_header == get_header(headers, "transfer_encoding")
    IN  chunked_header # <<>> /\ chunked_header[1] = "chunked"

\* the length always inserted, next to one already there
_dechunk_body_InsertLength(headers, body) ==
    insert(delete(headers, "transfer_encoding"), "content_length", <<str(Len(body))>>)

\* DechunkedAsyncStreamMessageBuilder._dechunk_body: the headers after it
_dechunk_body(headers, body) ==
    LET body_size == str(Len(body))
        deleted == delete(headers, "transfer_encoding")
    IN  IF get_header(headers, "transfer_encoding") # <<>>
        THEN IF get_header(deleted, "content_length") # <<>>
             THEN replace(deleted, "content_length", <<body_size>>)
             ELSE insert(deleted, "content_length", <<body_size>>)
        ELSE headers

\* DechunkedAsyncStreamMessageBuilder._build_body up to its first await:
\* which read comes next
_build_body(headers) ==
    IF _expect_chunked_body(headers) THEN "read_chunked"
    ELSE IF _expected_body_size(headers) < 0 THEN "failed"
    ELSE IF _expected_body_size(headers) # 0 THEN "read_exactly"
    ELSE "built"

\* ------------------------------------------------------------- server.py, main.py
\* One action per stretch of _handle_request between two awaits.

Conn(h, changes) == conns' = [conns EXCEPT ![h] = changes]

\* history: the handler's cache call has left the cache other than it was
Mutating(c, new_cache) == [c EXCEPT !.mutated = @ \/ new_cache # cache]

\* history: what the handler has done so far, in the order of its statements
Did(c, events) == [c EXCEPT !.events = @ \o events]

\* history: a cache_response on the store c, with the evict() it calls
PutEvents(c) ==
    IF cache_response_calls_evict(c) THEN <<"evict", "put">> ELSE <<"put">>

\* the except branch without the close
Closed_LeftOpen(c) == [c EXCEPT !.pc = "except_wait_closed", !.error = TRUE]

\* the except branch: client_writer.close(), up to the await of wait_closed()
Closed(c) ==
    Did([c EXCEPT !.pc = "except_wait_closed", !.client = "closed",
                  !.error = TRUE],
        <<"close_client">>)

\* the except branch after a cache call raised KeyError
ClosedByKeyError(c) == [Closed(c) EXCEPT !.raised = "KeyError"]

\* asyncio.start_server accepts a connection and starts its handler
Accept(h) ==
    /\ accepted < MaxConns
    /\ \/ conns[h].pc = "idle" /\ \A g \in Handlers : g < h => conns[g].pc # "idle"
       \/ conns[h].pc = "done" /\ \A g \in Handlers : conns[g].pc # "idle"
    /\ Conn(h, [IdleConn EXCEPT !.pc = "build_request", !.client = "open",
                    !.seq = IF accepted < 2 THEN accepted + 1 ELSE 0,
                    !.after = /\ accepted = 1
                              /\ \A g \in Handlers : conns[g].pc \in {"idle", "done"}])
    /\ accepted' = accepted + 1
    /\ UNCHANGED <<cache, Config, builder, History, cleaned, cleaner, evicted_empty>>

\* the client's request has been read; next await: the connection to the origin
BuildRequest(h, request_line) ==
    /\ conns[h].pc = "build_request"
    /\ Conn(h, Did([conns[h] EXCEPT !.pc = "open_connection", !.line = request_line],
                    <<"read_request">>))
    /\ UNCHANGED <<cache, Config, builder, History, accepted, cleaned, cleaner, evicted_empty>>

\* a suspension point between the lookup and the read of the entry
OpenConnection_Suspended(h) ==
    \/ /\ conns[h].pc = "open_connection"
       /\ LET c == Did([conns[h] EXCEPT !.origin = "open"], <<"connect_origin">>)
              has == has_cached_response(cache, c.line)
              checked == Did(c, <<"cache_check">>)
          IN  IF method(c.line) # "GET"
              THEN /\ Conn(h, Did([c EXCEPT !.pc = "build_response"],
                                  <<"write_origin">>))
                   /\ UNCHANGED cache
              ELSE /\ cache' = has.cache
                   /\ IF has.ret = "True"
                      THEN Conn(h, Mutating([checked EXCEPT !.pc = "cache_hit"],
                                            has.cache))
                      ELSE Conn(h, Mutating(Did([checked EXCEPT
                                                    !.pc = "build_response"],
                                                <<"write_origin">>),
                                            has.cache))
       /\ UNCHANGED <<Config, builder, History, accepted, cleaned, cleaner, evicted_empty>>
    \/ /\ conns[h].pc = "cache_hit"
       /\ LET c == conns[h]
              got == get_cached_response(cache, c.line)
              response == set_header(build_response(got.val.header, got.val.body),
                                     "x_cached_by_proxy", <<"HIT">>)
          IN  /\ cache' = got.cache
              /\ IF got.ret = "KeyError" THEN Conn(h, ClosedByKeyError(c))
                 ELSE Conn(h, Mutating(Did([c EXCEPT !.pc = "client_drain",
                                                     !.served = "cache",
                                                     !.sent = Raw(response)],
                                           <<"write_client">>),
                                       got.cache))
       /\ UNCHANGED <<Config, builder, History, accepted, cleaned, cleaner, evicted_empty>>

\* the stamped response built on a hit shared with the cache entry
OpenConnection_StampStored(h) ==
    /\ conns[h].pc = "open_connection"
    /\ LET c == Did([conns[h] EXCEPT !.origin = "open"], <<"connect_origin">>)
           cache_key == c.line
           has == has_cached_response(cache, cache_key)
           checked == Did(c, <<"cache_check">>)
           got == get_cached_response(has.cache, cache_key)
           response == set_header(build_response(got.val.header, got.val.body),
                                  "x_cached_by_proxy", <<"HIT">>)
           shared == SetItem(got.cache, cache_key,
                             [Lookup(got.cache, cache_key) EXCEPT
                                !.response = Raw(response)])
       IN  IF method(c.line) # "GET"
           THEN /\ Conn(h, Did([c EXCEPT !.pc = "build_response"],
                               <<"write_origin">>))
                /\ UNCHANGED cache
           ELSE IF has.ret = "True"
           THEN /\ cache' = shared
                /\ Conn(h, Mutating(Did([checked EXCEPT !.pc = "client_drain",
                                                        !.served = "cache",
                                                        !.sent = Raw(response)],
                                        <<"write_client">>),
                                    shared))
           ELSE /\ cache' = has.cache
                /\ Conn(h, Mutating(Did([checked EXCEPT !.pc = "build_response"],
                                        <<"write_origin">>),
                                    has.cache))
    /\ UNCHANGED <<Config, builder, History, accepted, cleaned, cleaner, evicted_empty>>

\* the origin connection is open: the cache is consulted for a GET; on a miss
\* and for other methods the request is written to the origin
OpenConnection(h) ==
    /\ conns[h].pc = "open_connection"
    /\ LET c == Did([conns[h] EXCEPT !.origin = "open"], <<"connect_origin">>)
           cache_key == c.line
           has == has_cached_response(cache, cache_key)
           checked == Did(c, <<"cache_check">>)
           got == get_cached_response(has.cache, cache_key)
           response == set_header(build_response(got.val.header, got.val.body),
                                  "x_cached_by_proxy", <<"HIT">>)
       IN  IF method(c.line) # "GET"
           THEN /\ Conn(h, Did([c EXCEPT !.pc = "build_response"],
                               <<"write_origin">>))
                /\ UNCHANGED cache
           ELSE IF has.ret = "True"
           THEN /\ cache' = got.cache
                /\ IF got.ret = "KeyError" THEN Conn(h, ClosedByKeyError(checked))
                   ELSE Conn(h, Mutating(Did([checked EXCEPT !.pc = "client_drain",
                                                           !.served = "cache",
                                                           !.sent = Raw(response)],
                                             <<"write_client">>),
                                         got.cache))
           ELSE /\ cache' = has.cache
                /\ Conn(h, Mutating(Did([checked EXCEPT !.pc = "build_response"],
                                        <<"write_origin">>),
                                    has.cache))
    /\ UNCHANGED <<Config, builder, History, accepted, cleaned, cleaner, evicted_empty>>

\* the cache value captured after the MISS stamp
BuildResponse_CaptureAfterStamp(h, origin_response) ==
    /\ conns[h].pc = "build_response"
    /\ origin_response \in OriginResponsesFor(conns[h].line)
    /\ LET c == Did(conns[h], <<"read_origin">>)
           response == build_response(origin_response.header, origin_response.body)
           stamped == set_header(response, "x_cached_by_proxy", <<"MISS">>)
           cachable_response == Raw(stamped)
           put == cache_response(cache, c.line, cachable_response)
           written == [c EXCEPT !.pc = "client_drain", !.served = "origin",
                                !.sent = Raw(stamped)]
       IN  IF method(c.line) # "GET"
           THEN /\ Conn(h, Did(written, <<"write_client">>))
                /\ UNCHANGED <<cache, evicted_empty>>
           ELSE /\ cache' = put.cache
                /\ PutOn(cache)
                /\ IF put.ret = "KeyError" THEN Conn(h, ClosedByKeyError(c))
                   ELSE Conn(h, Mutating(Did(written, PutEvents(cache) \o <<"write_client">>),
                                         put.cache))
    /\ UNCHANGED <<Config, builder, History, accepted, cleaned, cleaner>>

\* the response written to the client before the entry is stored
BuildResponse_WriteBeforePut(h, origin_response) ==
    /\ conns[h].pc = "build_response"
    /\ origin_response \in OriginResponsesFor(conns[h].line)
    /\ LET c == Did(conns[h], <<"read_origin">>)
           response == build_response(origin_response.header, origin_response.body)
           cachable_response == Raw(response)
           stamped == set_header(response, "x_cached_by_proxy", <<"MISS">>)
           written == [c EXCEPT !.pc = "client_drain", !.served = "origin",
                                !.sent = Raw(stamped)]
           put == cache_response(cache, c.line, cachable_response)
       IN  IF method(c.line) # "GET"
           THEN /\ Conn(h, Did(written, <<"write_client">>))
                /\ UNCHANGED <<cache, evicted_empty>>
           ELSE /\ cache' = put.cache
                /\ PutOn(cache)
                /\ IF put.ret = "KeyError" THEN Conn(h, ClosedByKeyError(c))
                   ELSE Conn(h, Mutating(Did(written, <<"write_client">> \o PutEvents(cache)),
                                         put.cache))
    /\ UNCHANGED <<Config, builder, History, accepted, cleaned, cleaner>>

\* the request has been written to the origin (drain) and the origin's response
\* has been read: a GET's response is cached, then stamped
BuildResponse(h, origin_response) ==
    /\ conns[h].pc = "build_response"
    /\ origin_response \in OriginResponsesFor(conns[h].line)
    /\ LET c == Did(conns[h], <<"read_origin">>)
           response == build_response(origin_response.header, origin_response.body)
           cachable_response == Raw(response)
           put == cache_response(cache, c.line, cachable_response)
           stamped == set_header(response, "x_cached_by_proxy", <<"MISS">>)
           written == [c EXCEPT !.pc = "client_drain", !.served = "origin",
                                !.sent = Raw(stamped)]
       IN  IF method(c.line) # "GET"
           THEN /\ Conn(h, Did(written, <<"write_client">>))
                /\ UNCHANGED <<cache, evicted_empty>>
           ELSE /\ cache' = put.cache
                /\ PutOn(cache)
                /\ IF put.ret = "KeyError" THEN Conn(h, ClosedByKeyError(c))
                   ELSE Conn(h, Mutating(Did(written, PutEvents(cache) \o <<"write_client">>),
                                         put.cache))
    /\ UNCHANGED <<Config, builder, History, accepted, cleaned, cleaner>>

\* the response has been written to the client (drain has returned):
\* writer.close(); next await: wait_closed()
ClientDrain(h) ==
    /\ conns[h].pc = "client_drain"
    /\ Conn(h, Did([conns[h] EXCEPT !.pc = "wait_closed", !.client = "closed"],
                    <<"close_client">>))
    /\ UNCHANGED <<cache, Config, builder, History, accepted, cleaned, cleaner, evicted_empty>>

\* wait_closed() has returned: the handler returns. It returns without a
\* close() of origin_writer: the field origin is what the handler has done
\* with the connection at its end, not what an interpreter's finalizer does
\* with the unreferenced writer later.
WaitClosed(h) ==
    /\ conns[h].pc = "wait_closed"
    /\ Conn(h, [conns[h] EXCEPT !.pc = "done"])
    /\ UNCHANGED <<cache, Config, builder, History, accepted, cleaned, cleaner, evicted_empty>>

\* the pending await raises: the except branch runs, also when the await is
\* the wait_closed() after the response was written, and then close() is
\* called a second time
Fail(h) ==
    /\ conns[h].pc \in {"build_request", "open_connection", "build_response",
                        "client_drain", "wait_closed"}
    /\ Conn(h, Closed(conns[h]))
    /\ UNCHANGED <<cache, Config, builder, History, accepted, cleaned, cleaner, evicted_empty>>

\* the except branch's wait_closed() has returned or raised: either way the
\* handler's task ends
ExceptWaitClosed(h) ==
    /\ conns[h].pc = "except_wait_closed"
    /\ Conn(h, [conns[h] EXCEPT !.pc = "done"])
    /\ UNCHANGED <<cache, Config, builder, History, accepted, cleaned, cleaner, evicted_empty>>

\* what the cleaner's call of evict() does to the store and to the task: an
\* exception ends the task
CleanerEvicts ==
    /\ cache' = evict(cache).cache
    /\ cleaned' = TRUE
    /\ cleaner' = IF evict(cache).ret = "KeyError" THEN "failed" ELSE "sleep"
    /\ evicted_empty' = (evicted_empty \/ cache = <<>>)

\* a suspension point between the size check and the call of evict()
CleanerTick_Suspended ==
    /\ cache_clean_interval # 0
    /\ \/ /\ cleaner = "sleep"
          /\ cleaner' = IF get_cache_size(cache) = 0 THEN "sleep" ELSE "evict"
          /\ UNCHANGED <<cache, cleaned, evicted_empty>>
       \/ /\ cleaner = "evict"
          /\ CleanerEvicts
    /\ UNCHANGED <<Config, builder, History, conns, accepted>>

\* periodic_cache_cleaner wakes up
CleanerTick ==
    /\ cache_clean_interval # 0
    /\ cleaner = "sleep"
    /\ IF get_cache_size(cache) = 0
       THEN UNCHANGED <<cache, cleaned, cleaner, evicted_empty>>
       ELSE CleanerEvicts
    /\ UNCHANGED <<Config, builder, History, conns, accepted>>

ServerInit ==
    /\ Construct(MaxServerSizeLimit, MaxServerHitTtl)
    /\ cache_clean_interval \in {i \in 0..1 : discard_negative_int(i)}
    /\ builder = NoBuilder
    /\ StartCleaner

ServerNext ==
    \/ \E h \in Handlers : Accept(h)
    \/ \E h \in Handlers, request_line \in RequestLines : BuildRequest(h, request_line)
    \/ \E h \in Handlers : OpenConnection(h)
    \/ \E h \in Handlers, origin_response \in OriginResponses :
            BuildResponse(h, origin_response)
    \/ \E h \in Handlers : ClientDrain(h)
    \/ \E h \in Handlers : WaitClosed(h)
    \/ \E h \in Handlers : Fail(h)
    \/ \E h \in Handlers : ExceptWaitClosed(h)
    \/ CleanerTick

ServerSpec == ServerInit /\ [][ServerNext]_vars

\* ------------------------------------------------------------- the cleaner on a store in use

\* remaining hit counts an entry of a running proxy has: from hit_ttl down to
\* 0, and below a negative hit_ttl as far as gets are explored
Counts == IF hit_ttl < 0 THEN (hit_ttl - MaxNegTtl)..hit_ttl ELSE 0..hit_ttl

\* entries the store can hold
Room ==
    IF cache_size_limit = 0 THEN 0
    ELSE IF eviction_policy = "none" THEN Cardinality(Keys)
    ELSE cache_size_limit

\* the stores the handlers' calls can have built when the cleaner wakes up
StoredCaches ==
    {c \in UNION {[1..n -> [key : Keys, response : {R1}, HIT_TTL : Counts]] :
                    n \in 0..Room} :
        \A i, j \in 1..Len(c) : c[i].key = c[j].key => i = j}

CleanerInit ==
    /\ Configure(MaxSizeLimit, MaxHitTtl)
    /\ cache_clean_interval \in {i \in 0..1 : discard_negative_int(i)}
    /\ cache \in StoredCaches
    /\ builder = NoBuilder
    /\ StartCleaner

CleanerNext == CleanerTick

CleanerSpec == CleanerInit /\ [][CleanerNext]_vars

\* ------------------------------------------------------------- a response read from the origin's stream

\* chunk payloads: plain bytes, bytes with a CRLF among them, and ten bytes
\* (size line "a")
Wiki == <<"W", "i", "k", "i">>
Broken == <<"\r", "\n", "p">>
Pedia == <<"p", "e", "d", "i", "a", "0", "1", "2", "3", "4">>
Payloads == {Wiki, Broken, Pedia}

PayloadLists == UNION {[1..n -> Payloads] : n \in 0..MaxChunks}

\* the chunked transfer coding of a list of payloads; style "extended" writes
\* upper-case sizes and a chunk extension
RECURSIVE hex(_, _)
hex(n, digits) ==
    IF n < 16 THEN <<digits[n + 1]>>
    ELSE hex(n \div 16, digits) \o <<digits[(n % 16) + 1]>>

Chunk(payload, style) ==
    IF style = "extended"
    THEN hex(Len(payload), UpperHexDigits) \o <<";", "x">> \o CRLF \o payload \o CRLF
    ELSE hex(Len(payload), HexDigits) \o CRLF \o payload \o CRLF

RECURSIVE Chunked(_, _)
Chunked(payloads, style) ==
    IF payloads = <<>> THEN <<"0">> \o CRLF \o CRLF
    ELSE Chunk(payloads[1], style) \o Chunked(Tail(payloads), style)

\* the same with the connection lost before the last CRLF
Truncated(wire) == SubSeq(wire, 1, Len(wire) - 2)

\* the same with a trailer field before the last CRLF
Trailed(wire) == Truncated(wire) \o <<"X", ":", "y">> \o CRLF \o CRLF

Wires(payloads) ==
    {Chunked(payloads, "plain"), Chunked(payloads, "extended"),
     Truncated(Chunked(payloads, "plain")), Trailed(Chunked(payloads, "plain"))}

\* header blocks of the origin's response
StreamHeaders ==
    LET block(lines) == [start |-> "HTTP/1.1 200 OK", lines |-> lines]
    IN  {block(<< <<"Transfer-Encoding", "chunked">> >>),
         block(<< <<"transfer-encoding", "chunked">> >>),
         block(<< <<"Content-Length", "5">>, <<"Transfer-Encoding", "chunked">> >>),
         block(<< <<"Content-Length", "5">>, <<"Transfer-Encoding", "chunked">>,
                  <<"content-length", "6">> >>),
         block(<< <<"Transfer-Encoding", "chunked">>,
                  <<"Transfer-Encoding", "gzip">> >>),
         block(<< <<"Transfer-Encoding", "gzip">>,
                  <<"Transfer-Encoding", "chunked">> >>),
         block(<< <<"Content-Length", "4">> >>)}

Streams ==
    UNION {{[header |-> header, payloads |-> payloads, wire |-> wire] :
                header \in StreamHeaders, wire \in Wires(payloads)} :
           payloads \in PayloadLists}

\* a GET /a has missed and been written to the origin; the origin's response
\* is on the stream
StreamInit ==
    /\ Construct(MaxServerSizeLimit, MaxServerHitTtl)
    /\ cache_clean_interval = 0
    /\ StartCleaner
    /\ \E stream \in Streams :
            builder = [NoBuilder EXCEPT !.pc = "read_headers", !.stream = stream,
                                       !.unread = stream.wire]

\* _build_headers, and _build_body up to the read of the body
ReadHeaders ==
    /\ builder.pc = "read_headers"
    /\ LET headers == HTTPHeaders(builder.stream.header)
       IN  builder' = [builder EXCEPT !.headers = headers,
                                      !.pc = _build_body(headers)]
    /\ UNCHANGED <<cache, Config, History, conns, accepted, cleaned, cleaner, evicted_empty>>

\* one turn of the loop of _read_chunked; after the last one _dechunk_body
ReadChunked ==
    /\ builder.pc = "read_chunked"
    /\ LET turn == _read_chunked(builder.unread, builder.body)
       IN  builder' =
            CASE turn.status = "continue" ->
                    [builder EXCEPT !.unread = turn.rest, !.body = turn.body]
              [] turn.status = "break" ->
                    [builder EXCEPT !.unread = turn.rest, !.pc = "built",
                                    !.headers = _dechunk_body(@, builder.body)]
              [] OTHER -> [builder EXCEPT !.pc = "failed"]
    /\ UNCHANGED <<cache, Config, History, conns, accepted, cleaned, cleaner, evicted_empty>>

\* the body of a response with Content-Length
ReadExactly ==
    /\ builder.pc = "read_exactly"
    /\ LET read == _read_exactly(builder.unread, _expected_body_size(builder.headers))
       IN  builder' =
            IF read.ok
            THEN [builder EXCEPT !.unread = read.rest, !.body = read.data,
                                 !.pc = "built"]
            ELSE [builder EXCEPT !.pc = "failed"]
    /\ UNCHANGED <<cache, Config, History, conns, accepted, cleaned, cleaner, evicted_empty>>

\* the built response is cached, stamped and written to the client
RespondFromStream ==
    /\ builder.pc = "built"
    /\ LET response == HTTPMessage(builder.headers, builder.body)
           cachable_response == Raw(response)
           put == cache_response(cache, GetA, cachable_response)
           stamped == set_header(response, "x_cached_by_proxy", <<"MISS">>)
       IN  /\ cache' = put.cache
           /\ PutOn(cache)
           /\ builder' = [builder EXCEPT !.pc = "client_drain", !.sent = Raw(stamped)]
    /\ UNCHANGED <<Config, History, conns, accepted, cleaned, cleaner>>

StreamNext ==
    \/ ReadHeaders
    \/ ReadChunked
    \/ ReadExactly
    \/ RespondFromStream

StreamSpec == StreamInit /\ [][StreamNext]_vars

\* ------------------------------------------------------------- claims on the cache

Max(a, b) == IF a >= b THEN a ELSE b

Count(c, key) == Lookup(c, key).HIT_TTL

\* C1: under policy "entire" or "lru" the store never holds more than
\* max(size_limit, 1) entries, whatever calls were made.
C1_SizeBound ==
    eviction_policy \in {"entire", "lru"}
        => get_cache_size(cache) <= Max(cache_size_limit, 1)

\* a put into a full "lru" store has just happened and the store is still full
C1_Witness ==
    /\ eviction_policy = "lru"
    /\ cache_size_limit = MaxSizeLimit
    /\ lastOp.op = "put"
    /\ lastOp.size_before = cache_size_limit
    /\ get_cache_size(cache) = cache_size_limit

\* C2: has(k) returns true exactly when k is stored with a remaining hit
\* count other than 0; on a stored k with count 0 it removes k and returns
\* false; in every other case it leaves the store unchanged.
C2_Has ==
    [][lastOp'.op = "has" =>
        LET key == lastOp'.key
            expired == Present(cache, key) /\ Count(cache, key) = 0
        IN  /\ lastOp'.ret \in {"True", "False"}
            /\ (lastOp'.ret = "True") <=>
                    (Present(cache, key) /\ Count(cache, key) # 0)
            /\ expired => cache' = Without(cache, key)
            /\ ~expired => cache' = cache]_vars

\* has(k) has just removed an exhausted entry and reported a miss
C2_Witness ==
    /\ lastOp.op = "has"
    /\ lastOp.ret = "False"
    /\ lastOp.size_before = get_cache_size(cache) + 1

\* C3: with hit_ttl = n > 0 and size_limit > 0, while k stays stored after
\* put(k, v): each of the first n get(k) returns v, has(k) is true after
\* fewer than n gets, and after exactly n gets has(k) is false and takes k
\* out of the store.
C3_TtlExhaustion ==
    [][(hit_ttl > 0 /\ cache_size_limit > 0) =>
        \A key \in Keys :
            (InRecency(key) /\ lastOp'.key = key) =>
                /\ (lastOp'.op = "get" /\ shadow[key].gets < hit_ttl) =>
                        (lastOp'.ret = "value" /\ lastOp'.val = shadow[key].val)
                /\ (lastOp'.op = "has" /\ shadow[key].gets < hit_ttl) =>
                        lastOp'.ret = "True"
                /\ (lastOp'.op = "has" /\ shadow[key].gets = hit_ttl) =>
                        (lastOp'.ret = "False" /\ ~Present(cache', key))]_vars

\* with the largest hit_ttl explored, has(k) has just found k exhausted
C3_Witness ==
    /\ hit_ttl = MaxHitTtl
    /\ cache_size_limit > 0
    /\ lastOp.op = "has"
    /\ lastOp.ret = "False"
    /\ lastOp.size_before = get_cache_size(cache) + 1

\* C4: under "lru" an eviction removes the entry least recently read or
\* inserted and keeps the others: an overflowing put of a new key, and a call
\* of evict() on a store with entries, remove the stored key whose last get
\* or put is the oldest and keep every other stored key; a get(k) of a stored
\* key makes k the newest entry of the store.
C4_LeastRecentEvicted ==
    [][eviction_policy = "lru" =>
        /\ ((\/ /\ lastOp'.op = "put"
                /\ ~Present(cache, lastOp'.key)
                /\ cache_response_calls_evict(cache)
             \/ lastOp'.op = "evict")
            /\ cache # <<>>)
                => /\ ~Present(cache', Head(used))
                   /\ \A i \in 2..Len(used) : Present(cache', used[i])
        /\ (lastOp'.op = "get" /\ Present(cache, lastOp'.key))
                => cache'[Len(cache')].key = lastOp'.key]_vars

\* C5 as stated: under "entire", a put of a new key into a store that holds
\* size_limit entries leaves exactly that key stored.
C5_Original ==
    [][(/\ eviction_policy = "entire"
        /\ lastOp'.op = "put"
        /\ ~Present(cache, lastOp'.key)
        /\ get_cache_size(cache) = cache_size_limit)
            => KeysOf(cache') = <<lastOp'.key>>]_vars

\* C5 amended: the same, for size_limit >= 1.
C5_EntireFlush ==
    [][(/\ eviction_policy = "entire"
        /\ cache_size_limit >= 1
        /\ lastOp'.op = "put"
        /\ ~Present(cache, lastOp'.key)
        /\ get_cache_size(cache) = cache_size_limit)
            => KeysOf(cache') = <<lastOp'.key>>]_vars

\* a put into a full "entire" store of two entries has just left one entry
C5_Witness ==
    /\ eviction_policy = "entire"
    /\ cache_size_limit = 2
    /\ lastOp.op = "put"
    /\ lastOp.size_before = 2
    /\ KeysOf(cache) = <<lastOp.key>>

\* C6: under "none" with size_limit > 0, evict changes nothing, a put leaves
\* every other entry as and where it was, and a put of a new key adds one
\* entry, also past size_limit.
C6_NoneNoOp ==
    [][(eviction_policy = "none" /\ cache_size_limit > 0) =>
        /\ lastOp'.op = "evict" => (cache' = cache /\ lastOp'.ret = "None")
        /\ lastOp'.op = "put" =>
            /\ \A i \in 1..Len(cache) :
                    cache[i].key # lastOp'.key =>
                        (i <= Len(cache') /\ cache'[i] = cache[i])
            /\ ~Present(cache, lastOp'.key) =>
                    get_cache_size(cache') = get_cache_size(cache) + 1]_vars

\* size_limit + 1 entries are stored after a put into a full "none" store
C6_Witness ==
    /\ eviction_policy = "none"
    /\ cache_size_limit > 0
    /\ lastOp.op = "put"
    /\ lastOp.size_before = cache_size_limit
    /\ get_cache_size(cache) = cache_size_limit + 1

\* C7: with size_limit = 0 nothing is ever stored, under every policy, and
\* has(k) is never true.
C7_SizeZero ==
    cache_size_limit = 0 =>
        /\ get_cache_size(cache) = 0
        /\ lastOp.op = "has" => lastOp.ret = "False"

\* a put has just been made with size_limit = 0
C7_Witness ==
    /\ cache_size_limit = 0
    /\ lastOp.op = "put"
    /\ lastOp.ret = "None"

\* C8 as stated: no stored entry has a remaining hit count of 0.
C8_Original ==
    \A i \in 1..Len(cache) : cache[i].HIT_TTL # 0

\* C8 amended: a stored entry has a remaining hit count of 0 only because a
\* get took it from 1 to 0, and only until the next has(k) for its key,
\* which removes it; a put never stores a count of 0.
C8_LazyExpiry ==
    [][\A i \in 1..Len(cache') :
        cache'[i].HIT_TTL = 0 =>
            LET key == cache'[i].key
            IN  \/ /\ lastOp'.op = "get"
                   /\ lastOp'.key = key
                   /\ Present(cache, key)
                   /\ Count(cache, key) = 1
                \/ /\ Present(cache, key)
                   /\ Count(cache, key) = 0
                   /\ ~(lastOp'.op = "has" /\ lastOp'.key = key)]_vars

\* a get has just taken an entry's count to 0 and the entry is still stored
C8_Witness ==
    /\ lastOp.op = "get"
    /\ lastOp.ret = "value"
    /\ Present(cache, lastOp.key)
    /\ Count(cache, lastOp.key) = 0

\* C9: with a negative hit_ttl every stored count stays negative, has(k) on
\* a stored k is true and removes nothing, and a key leaves the store only
\* by remove or by an eviction (evict, or the one a put triggers).
C9_Unlimited ==
    [][hit_ttl < 0 =>
        /\ \A i \in 1..Len(cache') : cache'[i].HIT_TTL < 0
        /\ (lastOp'.op = "has" /\ Present(cache, lastOp'.key)) =>
                (lastOp'.ret = "True" /\ cache' = cache)
        /\ \A key \in Keys :
                (Present(cache, key) /\ ~Present(cache', key)) =>
                    \/ lastOp'.op = "evict"
                    \/ lastOp'.op = "remove" /\ lastOp'.key = key
                    \/ lastOp'.op = "put" /\ lastOp'.key # key
                          /\ get_cache_size(cache) >= cache_size_limit]_vars

\* has(k) is true on an unlimited entry that has been read repeatedly
C9_Witness ==
    /\ hit_ttl < 0
    /\ lastOp.op = "has"
    /\ lastOp.ret = "True"
    /\ shadow[lastOp.key].gets >= 2

\* ------------------------------------------------------------- claims on the proxy

\* the X-Cached-By-Proxy values of a raw header block, in wire order
StampsOf(lines) ==
    LET marked == SelectSeq(lines,
                    LAMBDA l : _normalize_header(l[1]) = "x_cached_by_proxy")
    IN  [i \in 1..Len(marked) |-> marked[i][2]]

\* the X-Cached-By-Proxy values on the response written to h's client
Stamps(h) == StampsOf(conns[h].sent.header.lines)

\* the value the proxy added: insert appends, so it is the last one
Stamp(h) == IF Stamps(h) = <<>> THEN "-" ELSE Stamps(h)[Len(Stamps(h))]

Replied(h) == conns[h].pc = "done" /\ ~conns[h].error

\* the first two connections of the proxy, the second accepted after the first
\* was answered, both GETs with the same request line, and no cleaner eviction
Sequential(first, second) ==
    /\ conns[first].seq = 1
    /\ conns[second].seq = 2
    /\ conns[second].after
    /\ Replied(first)
    /\ method(conns[first].line) = "GET"
    /\ conns[second].line = conns[first].line
    /\ ~cleaned

\* C10: with size_limit >= 1 (and hit_ttl # 0, which the arguments ensure),
\* of two GETs with the same request line handled one after the other with no
\* cleaner eviction, the first is answered with the proxy's stamp MISS and
\* the second with the proxy's stamp HIT.
C10_MissThenHit ==
    cache_size_limit >= 1 =>
        \A first, second \in Handlers :
            (Sequential(first, second) /\ conns[second].served # "-") =>
                /\ Stamp(first) = "MISS"
                /\ Stamp(second) = "HIT"

\* the second of two such GETs has been answered, with hit_ttl = 1
C10_Witness ==
    /\ cache_size_limit >= 1
    /\ hit_ttl = 1
    /\ \E first, second \in Handlers :
        /\ Sequential(first, second)
        /\ Replied(second)
        /\ Stamps(second) = <<"HIT">>

\* the request line's method, as the client sent it, is not GET in any case
NonGet(line) == line # NoKey /\ line[1] \notin {"GET", "get"}

\* C11: no step of a handler whose request's method is not GET changes the
\* cache (no entry added, removed, reordered or decremented), and the
\* response such a handler writes comes from the origin and every
\* X-Cached-By-Proxy value on it, the proxy's stamp included, is MISS, also
\* while a GET of the same path is cached.
C11_NonGetFrame ==
    [][\A h \in Handlers :
        (conns'[h] # conns[h] /\ NonGet(conns'[h].line)) =>
            /\ cache' = cache
            /\ conns'[h].sent # NoResponse =>
                    /\ conns'[h].served = "origin"
                    /\ Stamp(h)' = "MISS"
                    /\ \A i \in 1..Len(Stamps(h)') : Stamps(h)'[i] = "MISS"]_vars

\* a POST /a has been answered MISS while GET /a is cached
C11_Witness ==
    /\ Present(cache, GetA)
    /\ \E h \in Handlers :
        /\ Replied(h)
        /\ conns[h].line = PostA
        /\ Stamps(h) = <<"MISS">>
        /\ Count(cache, GetA) = 0

\* C12: a handler that answers a GET from the cache has opened no connection
\* to the origin.
C12_HitWithoutOrigin ==
    \A h \in Handlers : conns[h].served = "cache" => conns[h].origin = "none"

\* C13 as stated: a response written to a client carries the value HIT
\* exactly when it was built from a cache entry and the value MISS exactly
\* when it was read from the origin.
C13_Original ==
    \A h \in Handlers :
        conns[h].sent # NoResponse =>
            LET values == {Stamps(h)[i] : i \in 1..Len(Stamps(h))}
            IN  /\ "HIT" \in values <=> conns[h].served = "cache"
                /\ "MISS" \in values <=> conns[h].served = "origin"

\* C13 amended: the response a handler writes carries the X-Cached-By-Proxy
\* values of the response it was built from, followed by one value the proxy
\* adds: HIT after the values of the cache entry when built from the cache,
\* MISS after the values of the origin's response when read from the origin;
\* the entry a miss stores carries the origin's values without that MISS.
C13_ProxyStamp ==
    [][\A h \in Handlers :
        (conns'[h].sent # conns[h].sent /\ conns'[h].sent # NoResponse) =>
            LET key == conns'[h].line
                stamps == Stamps(h)'
            IN  \/ /\ conns'[h].served = "cache"
                   /\ Present(cache, key)
                   /\ stamps = StampsOf(Lookup(cache, key).response.header.lines)
                                    \o <<"HIT">>
                \/ /\ conns'[h].served = "origin"
                   /\ \E r \in OriginResponses :
                        /\ stamps = StampsOf(r.header.lines) \o <<"MISS">>
                        /\ (~NonGet(key) /\ Present(cache', key)) =>
                                StampsOf(Lookup(cache', key).response.header.lines)
                                    = StampsOf(r.header.lines)]_vars

\* a hit has been answered from an entry whose origin response carried
\* X-Cached-By-Proxy: MISS; the response carries that MISS and the proxy's HIT
C13_Witness ==
    \E h \in Handlers :
        /\ Replied(h)
        /\ conns[h].served = "cache"
        /\ Stamps(h) = <<"MISS", "HIT">>

\* the handler failed before it wrote anything to its client
FailedEarly(h) == conns[h].error /\ conns[h].sent = NoResponse

\* C14 as stated: a handler that failed while reading the request,
\* connecting to the origin, writing to it or reading its response has
\* written nothing, has closed the client connection and has left the cache
\* as it was.
C14_Original ==
    \A h \in Handlers :
        FailedEarly(h) => (conns[h].client = "closed" /\ ~conns[h].mutated)

\* C14 amended: no step of a handler that has written nothing to its client
\* yet changes the cache, except that the lookup of its own key removes that
\* key's entry when its hit count is exhausted; and the step in which the
\* read of the request, the connect, the write to the origin or the read of
\* its response fails changes no entry, writes nothing and closes the client
\* connection.
C14_FailureFrame ==
    [][\A h \in Handlers :
        conns'[h] # conns[h] =>
            LET key == conns'[h].line
            IN  /\ conns'[h].sent = NoResponse =>
                    \/ cache' = cache
                    \/ /\ Present(cache, key)
                       /\ Count(cache, key) = 0
                       /\ cache' = Without(cache, key)
                /\ (conns'[h].error /\ conns[h].sent = NoResponse) =>
                    /\ cache' = cache
                    /\ conns'[h].sent = NoResponse
                    /\ conns'[h].client = "closed"]_vars

\* a handler's lookup removed an exhausted entry and the exchange with the
\* origin then failed
C14_Witness ==
    \E h \in Handlers :
        /\ FailedEarly(h)
        /\ conns[h].client = "closed"
        /\ conns[h].origin = "open"
        /\ conns[h].mutated
        /\ ~Present(cache, conns[h].line)

\* C15: when a handler has finished, normally or by an error, the origin
\* connection it opened is closed, as is the client connection.
C15_BothClosed ==
    \A h \in Handlers :
        conns[h].pc = "done" =>
            (conns[h].client = "closed" /\ conns[h].origin # "open")

\* ------------------------------------------------------------- claims on the stream builder

RECURSIVE Flatten(_)
Flatten(payloads) ==
    IF payloads = <<>> THEN <<>> ELSE payloads[1] \o Flatten(Tail(payloads))

\* the values of the header lines of a raw header block with one of the names
ValuesOf(lines, names) ==
    LET named == SelectSeq(lines, LAMBDA l : l[1] \in names)
    IN  [i \in 1..Len(named) |-> named[i][2]]

TransferEncodingNames == {"Transfer-Encoding", "transfer-encoding"}
ContentLengthNames == {"Content-Length", "content-length"}

\* the first Transfer-Encoding value of the stream's header block is "chunked"
ChunkedStream(stream) ==
    LET values == ValuesOf(stream.header.lines, TransferEncodingNames)
    IN  values # <<>> /\ values[1] = "chunked"

\* a raw header block in the rewritten form for a body
Rewritten(raw_header, body) ==
    /\ ValuesOf(raw_header.lines, TransferEncodingNames) = <<>>
    /\ ValuesOf(raw_header.lines, ContentLengthNames) = <<str(Len(body))>>

\* C16: a message built from a stream whose first Transfer-Encoding value is
\* "chunked" has no Transfer-Encoding header and exactly one Content-Length
\* value, the length of its body, also when the stream had Content-Length
\* values of its own; its body is the chunk payloads one after the other;
\* and this form is what is stored in the cache and, with the stamp added,
\* written to the client.
C16_Dechunked ==
    (builder.pc \in {"built", "client_drain"} /\ ChunkedStream(builder.stream)) =>
        /\ builder.body = Flatten(builder.stream.payloads)
        /\ Rewritten(builder.headers.raw, builder.body)
        /\ get_header(builder.headers, "transfer_encoding") = <<>>
        /\ get_header(builder.headers, "content_length") = <<str(Len(builder.body))>>
        /\ builder.pc = "client_drain" =>
            /\ builder.sent.body = builder.body
            /\ Rewritten(builder.sent.header, builder.body)
            /\ cache_size_limit > 0 =>
                /\ Present(cache, GetA)
                /\ Lookup(cache, GetA).response.body = builder.body
                /\ Rewritten(Lookup(cache, GetA).response.header, builder.body)

\* a response of two chunks, one with a CRLF inside and one of ten bytes,
\* that came with two Content-Length values has been cached and sent
C16_Witness ==
    /\ builder.pc = "client_drain"
    /\ ChunkedStream(builder.stream)
    /\ builder.stream.payloads = <<Broken, Pedia>>
    /\ Len(ValuesOf(builder.stream.header.lines, ContentLengthNames)) = 2
    /\ ValuesOf(builder.sent.header.lines, ContentLengthNames) = <<"13">>
    /\ Present(cache, GetA)

\* ------------------------------------------------------------- further claims on the cache

\* C17: a get(k) of an entry whose remaining hit count is negative (the
\* unlimited sentinel) leaves that count as it was.
C17_UnlimitedKept ==
    [][(/\ lastOp'.op = "get"
        /\ Present(cache, lastOp'.key)
        /\ Count(cache, lastOp'.key) < 0)
            => (/\ Present(cache', lastOp'.key)
                /\ Count(cache', lastOp'.key) = Count(cache, lastOp'.key))]_vars

\* C18: after a put(k, v) with size_limit > 0, of a key stored or not, k is
\* stored with remaining hit count hit_ttl and value v, and is the newest
\* entry of the store's order.
C18_PutNewest ==
    [][(lastOp'.op = "put" /\ cache_size_limit > 0) =>
        LET key == lastOp'.key
        IN  /\ Present(cache', key)
            /\ Count(cache', key) = hit_ttl
            /\ Lookup(cache', key).response = shadow'[key].val
            /\ cache'[Len(cache')].key = key]_vars

\* ------------------------------------------------------------- further claims on the proxy

InFlight(h) == conns[h].pc \in {"build_request", "open_connection",
                                "build_response", "client_drain", "wait_closed"}

\* C19: whatever the interleaving of the handlers and the cleaner at their
\* suspension points, no cache call of a handler raises KeyError: the
\* get(key) that follows a has(key) hit finds the key.
C19_GetFindsKey ==
    \A h \in Handlers : conns[h].raised # "KeyError"

\* a handler has read an entry from the cache after the cleaner evicted and
\* while another handler, which stored the entry, was still at work
C19_Witness ==
    /\ cleaned
    /\ \E h, g \in Handlers :
        /\ h # g
        /\ conns[h].served = "cache"
        /\ InFlight(g)
        /\ conns[g].served = "origin"
        /\ conns[g].line = conns[h].line

\* ------------------------------------------------------------- claims on the cleaner

IsPrefix(s, t) == Len(s) <= Len(t) /\ s = SubSeq(t, 1, Len(s))

\* what a handler does before it closes its client connection, in order: on a
\* hit, on a miss, and for a method other than GET
HitOrder == <<"read_request", "cache_check", "write_client">>
MissOrder == <<"read_request", "cache_check", "write_origin", "read_origin",
               "put", "write_client">>
ForwardOrder == <<"read_request", "write_origin", "read_origin", "write_client">>

OrdersFor(line) ==
    IF line = NoKey THEN {<<>>}
    ELSE IF method(line) = "GET" THEN {HitOrder, MissOrder}
    ELSE {ForwardOrder}

\* the handler's events the order is about (the connect to the origin and
\* the evict() inside a put are not among them)
Ordered(h) ==
    SelectSeq(conns[h].events, LAMBDA e : e \notin {"connect_origin", "evict"})

\* the calls of client_writer.close() so far
Closes(h) == SelectSeq(Ordered(h), LAMBDA e : e = "close_client")

HasClosed(h) == Closes(h) # <<>>

\* the events other than the close
Steps(h) == SelectSeq(Ordered(h), LAMBDA e : e # "close_client")

\* C21: what a handler has done for its connection is, in every state, a
\* beginning of one fixed order: read the request, check the cache (GET
\* only), on a miss or another method write the request to the origin and
\* read its response, on a miss put the response into the cache, write the
\* response to the client, close the client connection. The put comes after
\* the read of the origin's response and before the write to the client; the
\* write to the client comes after the read of the request; the close comes
\* after every other event, once, and a second time only from the except
\* branch when the wait for the first close has failed; and a handler that
\* has answered has done every step of its order and closed once.
C21_HandlerOrder ==
    \A h \in Handlers :
        /\ \E order \in OrdersFor(conns[h].line) :
            /\ IsPrefix(Steps(h), order)
            /\ Replied(h) => (Steps(h) = order /\ Len(Closes(h)) = 1)
            /\ Len(Closes(h)) = 2 => (Steps(h) = order /\ conns[h].error)
        /\ Ordered(h) = Steps(h) \o Closes(h)
        /\ Len(Closes(h)) <= 2
        /\ HasClosed(h) <=> conns[h].client = "closed"
        /\ conns[h].sent # NoResponse <=>
                \E i \in 1..Len(Steps(h)) : Steps(h)[i] = "write_client"
        /\ conns[h].served = "cache" => IsPrefix(Steps(h), HitOrder)

\* a GET that missed has been answered, every step of the miss order done,
\* while another handler was at work on the same request line
C21_Witness ==
    \E h, g \in Handlers :
        /\ h # g
        /\ Replied(h)
        /\ Ordered(h) = MissOrder \o <<"close_client">>
        /\ InFlight(g)
        /\ conns[g].line = conns[h].line
        /\ conns[g].pc = "build_response"

\* ------------------------------------------------------------- claims on evict()

Evicted(h) == \E i \in 1..Len(conns[h].events) : conns[h].events[i] = "evict"

\* C22: no put of a handler and no tick of the cleaner calls evict() on an
\* empty store: a put that calls it runs with size_limit >= 1, no cache call
\* of a handler fails with KeyError, and the cleaner task never ends with an
\* error.
C22_EvictFindsEntries ==
    /\ ~evicted_empty
    /\ cleaner # "failed"
    /\ \A h \in Handlers :
        /\ Evicted(h) => cache_size_limit >= 1
        /\ conns[h].raised # "KeyError"

\* under "lru" a handler's put has called evict() on a full store, and the
\* cleaner has then evicted the entry that put stored, while the handler was
\* still writing to its client
C22_Witness ==
    /\ eviction_policy = "lru"
    /\ cleaned
    /\ cleaner = "sleep"
    /\ cache = <<>>
    /\ \E h \in Handlers : Evicted(h) /\ conns[h].pc = "client_drain"

\* ------------------------------------------------------------- claims on the hit counts

\* C23: with a positive hit_ttl, in every state of the running proxy,
\* whatever the interleaving of the handlers and the cleaner, the remaining
\* hit count of every stored entry is within 0..hit_ttl: a finite count is
\* never decremented below 0.
C23_CountInRange ==
    hit_ttl > 0 =>
        \A i \in 1..Len(cache) : cache[i].HIT_TTL \in 0..hit_ttl

\* a handler has read an entry's last hit, the exhausted entry is still
\* stored, and another handler with the same request line is about to look
\* it up
C23_Witness ==
    /\ hit_ttl > 0
    /\ \E h, g \in Handlers :
        /\ h # g
        /\ conns[h].served = "cache"
        /\ InFlight(h)
        /\ Present(cache, conns[h].line)
        /\ Count(cache, conns[h].line) = 0
        /\ conns[g].pc = "open_connection"
        /\ conns[g].line = conns[h].line

\* ------------------------------------------------------------- claims on a put of a stored key

\* C24: a put(k, v) of a key that is stored removes no other entry: every
\* other key is stored after the put exactly when it was stored before, also
\* when the store is at size_limit.
C24_PutKeepsOthers ==
    [][(lastOp'.op = "put" /\ Present(cache, lastOp'.key)) =>
        \A k \in Keys \ {lastOp'.key} :
            Present(cache', k) <=> Present(cache, k)]_vars

\* ------------------------------------------------------------- claims on the content of a hit

\* the header fields of a raw header block, as a Header Set reads them: the
\* values of each normalized name, in order
Fields(raw_header) == _parse_header_lines(raw_header.lines)

\* the step is handler h's answer from the cache
Hits(h) == conns[h].served # "cache" /\ conns'[h].served = "cache"

\* the step is handler h's put for its request line
Puts(h) ==
    /\ conns[h].pc = "build_response"
    /\ conns'[h].pc = "client_drain"
    /\ method(conns[h].line) = "GET"

\* C25: the response a handler writes on a hit has the body, the start line
\* and the header fields of the value stored for its key, and one
\* X-Cached-By-Proxy value more, HIT; the read and the stamp leave the stored
\* value as it was; and the value stored for a key is a response of the
\* origin that changes only by a put for that key, so it is the one the most
\* recent put stored and repeated hits carry the same content.
C25_HitCarriesStored ==
    [][/\ \A h \in Handlers :
            Hits(h) =>
                LET key == conns'[h].line
                    stored == Lookup(cache, key).response
                    sent == conns'[h].sent
                IN  /\ Present(cache, key)
                    /\ sent.body = stored.body
                    /\ sent.header.start = stored.header.start
                    /\ Fields(sent.header) =
                            Extend(Fields(stored.header), "x_cached_by_proxy",
                                   <<"HIT">>)
                    /\ Present(cache', key)
                    /\ Lookup(cache', key).response = stored
       /\ \A i \in 1..Len(cache') :
            LET key == cache'[i].key
            IN  /\ cache'[i].response \in OriginResponses
                /\ (Present(cache, key) =>
                        Lookup(cache, key).response # cache'[i].response)
                    => \E h \in Handlers : Puts(h) /\ conns[h].line = key]_vars

\* two handlers have answered the same request line from the cache, with the
\* same content: the stored response of the origin, whose header name was
\* written in lower case, with the name as the Header Set formats it and the
\* stamp; the stored value is as the origin sent it
C25_Witness ==
    \E h, g \in Handlers :
        /\ h # g
        /\ Replied(h) /\ Replied(g)
        /\ conns[h].served = "cache" /\ conns[g].served = "cache"
        /\ conns[h].line = conns[g].line
        /\ conns[h].sent = conns[g].sent
        /\ conns[h].sent.body = R2.body
        /\ conns[h].sent.header.lines =
                << <<"Content-Length", "2">>, <<"X-Cached-By-Proxy", "HIT">> >>
        /\ Present(cache, conns[h].line)
        /\ Lookup(cache, conns[h].line).response = R2

====
